---- MODULE Spec2Model ----
(***************************************************************************)
(* A model of the sudoku solver (src/src/sudoku.rs) and of the update      *)
(* function of its web front end (src/src/lib.rs).                         *)
(*                                                                         *)
(* A Board is a record [squares, n]: squares is the flat, row-major array  *)
(* of cells (1-based here, 0-based in the source) and n the side.  The     *)
(* functions of the source are operators computed as the source computes   *)
(* them; a panic (an index out of bounds, an integer underflow, a failed   *)
(* assertion) is an explicit outcome.  The recursive search Board::solver  *)
(* is a machine over its call stack: one frame per activation, one step    *)
(* per entry, per iteration of the candidate loop and per return.          *)
(***************************************************************************)
EXTENDS Integers, Sequences, FiniteSets, TLC

(* ------------------------------ Cell ---------------------------------- *)

Empty == [kind |-> "Empty", v |-> 0]

Variable(v) == [kind |-> "Variable", v |-> v]

Constant(v) == [kind |-> "Constant", v |-> v]

(* ------------------------------ Board --------------------------------- *)

\* (len as f64).sqrt() as usize: the largest s with s * s <= len (exact for
\* the lengths used here, far below 2^53).
RECURSIVE isqrt_from(_, _)
isqrt_from(len, s) == IF (s + 1) * (s + 1) > len THEN s ELSE isqrt_from(len, s + 1)

isqrt(len) == isqrt_from(len, 0)

\* Board::new(n): n * n Empty cells and side n; n is not examined.
new(n) == [kind |-> "Board", squares |-> [i \in 1..(n * n) |-> Empty], n |-> n]

\* Board::from(squares): the side is isqrt(len); assert_eq!(n * n, len).
from(cells) ==
  LET n == isqrt(Len(cells))
  IN  IF n * n = Len(cells)
      THEN [kind |-> "Board", squares |-> cells, n |-> n]
      ELSE [kind |-> "Panic", squares |-> <<>>, n |-> n]

\* The bounds check of self.squares[y * self.n + x].
InBounds(b, x, y) == y * b.n + x < Len(b.squares)

\* Board::get, for an index in bounds.
get(b, x, y) == b.squares[y * b.n + x + 1]

\* Board::set: a copy of the array with one cell replaced.
set_transposed(b, x, y, c) == [b EXCEPT !.squares[x * b.n + y + 1] = c]

set(b, x, y, c) == [b EXCEPT !.squares[y * b.n + x + 1] = c]

(* ------------------------- constraint checks -------------------------- *)

\* The loop shared by the three checks: visit the coordinates in order,
\* skip Empty cells, return false at the first value already in the set.
\* "panic" when a visited index is out of bounds.
\* The cells a check passes over: "Cell::Empty => continue".
skipped_unless_fixed(c) == c.kind # "Constant"

skipped(c) == c.kind = "Empty"

RECURSIVE scan(_, _, _, _)
scan(b, coords, i, seen) ==
  IF i > Len(coords) THEN "true"
  ELSE LET x == coords[i][1]
           y == coords[i][2]
       IN  IF ~InBounds(b, x, y) THEN "panic"
           ELSE LET c == get(b, x, y)
                IN  IF skipped(c) THEN scan(b, coords, i + 1, seen)
                    ELSE IF c.v \in seen THEN "false"
                    ELSE scan(b, coords, i + 1, seen \cup {c.v})

check_row_always(b, y) == "true"

check_row_constraint(b, y) ==
  scan(b, [i \in 1..b.n |-> <<i - 1, y>>], 1, {})

check_col_always(b, x) == "true"

check_col_constraint(b, x) ==
  scan(b, [i \in 1..b.n |-> <<x, i - 1>>], 1, {})

check_box_always(b, x, y) == "true"

check_box_constraint(b, x, y) ==
  LET sqrt_n == isqrt(b.n)
      x0 == (x \div sqrt_n) * sqrt_n
      y0 == (y \div sqrt_n) * sqrt_n
  IN  scan(b, [i \in 1..(sqrt_n * sqrt_n) |->
                 <<x0 + ((i - 1) % sqrt_n), y0 + ((i - 1) \div sqrt_n)>>], 1, {})

\* row && col && box, evaluated left to right with short circuit.
within_constraints(b, x, y) ==
  LET r == check_row_constraint(b, y)
  IN  IF r # "true" THEN r
      ELSE LET c == check_col_constraint(b, x)
           IN  IF c # "true" THEN c ELSE check_box_constraint(b, x, y)

(* ------------------------------ solver -------------------------------- *)

\* What solver returns: "Some" (with the board) or "None"; "Panic" (with
\* the coordinates of the access that failed) when it does not return.
NoRet == [kind |-> "NoRet", board |-> <<>>, at |-> <<>>]

SomeR(b) == [kind |-> "Some", board |-> b, at |-> <<>>]

NoneR == [kind |-> "None", board |-> <<>>, at |-> <<>>]

PanicR(x, y) == [kind |-> "Panic", board |-> <<>>, at |-> <<x, y>>]

x_next(b, x) == IF x < b.n - 1 THEN x + 1 ELSE 0

y_next(b, x, y) == IF x < b.n - 1 THEN y ELSE y + 1

\* The last candidate of the loop "for v in 1..=self.n".
last_candidate_exclusive(b) == b.n - 1

last_candidate(b) == b.n

\* The cell a candidate is placed as.
placed_as_constant(v) == Constant(v)

placed(v) == Variable(v)

\* The last cell, where a candidate that passes the checks ends the search.
is_last(b, x, y) == x = b.n - 1 /\ y = b.n - 1

VARIABLES
  pc,        \* where the caller is: "ready", "solving", "done", ...
  board,     \* the grid the caller holds
  stack,     \* the activations of solver, the innermost last
  ret,       \* the value an activation has just returned, or NoRet
  sets,      \* the calls of set the running search has made
  result,    \* what solve returned to the caller
  result2,   \* what solve returned on the grid with every occupied cell Fixed
  ctor,      \* the constructor call that made the grid
  held,      \* the grid the caller built and still holds
  log,       \* the calls of set made since, as <<x, y, cell>>
  warning,   \* Model.warning
  selected,  \* Model.selected: <<x, y>>, or <<>> for None
  edits,     \* the cell edits the page has handled
  solves     \* the Solve messages the page has handled

solverVars == <<stack, ret, sets>>

\* A call of solve is running (the second one of a pair: "solving2").
Solving == pc \in {"solving", "solving2"}

\* An activation of solver(self, x, y); v is the loop variable, at the place
\* in the body: "enter", "try" (the head of a loop iteration), "wait_const"
\* (in the call of line 121) or "wait_loop" (in the call of line 139).
Frame(b, x, y) == [self |-> b, x |-> x, y |-> y, v |-> 0, at |-> "enter"]

Top == stack[Len(stack)]

Pop == SubSeq(stack, 1, Len(stack) - 1)

Retop(f) == [stack EXCEPT ![Len(stack)] = f]

\* A panic unwinds every activation.
Unwind(x, y) == stack' = <<>> /\ ret' = PanicR(x, y)

\* The call self.solver(0, 0) of solve.
StartSolve(b) ==
  /\ stack' = <<Frame(b, 0, 0)>>
  /\ ret' = NoRet
  /\ sets' = 0

\* Entry of solver: lines 113-123.  With n = 0, self.n - 1 underflows (a
\* panic with overflow checks; without them get(0, 0) on the empty array
\* panics).
SolverEnter ==
  /\ Solving /\ ret = NoRet /\ stack # <<>> /\ Top.at = "enter"
  /\ LET f == Top
         b == f.self
         ok == within_constraints(b, f.x, f.y)
     IN  CASE b.n = 0 \/ ~InBounds(b, f.x, f.y) -> Unwind(f.x, f.y)
           [] b.n # 0 /\ InBounds(b, f.x, f.y) /\ get(b, f.x, f.y).kind # "Constant" ->
                stack' = Retop([f EXCEPT !.v = 1, !.at = "try"]) /\ ret' = NoRet
           [] OTHER ->
                CASE ok = "panic" -> Unwind(f.x, f.y)
                  [] ok = "false" -> stack' = Pop /\ ret' = NoneR
                  [] OTHER ->
                       /\ stack' = Append(Retop([f EXCEPT !.at = "wait_const"]),
                                          Frame(b, x_next(b, f.x), y_next(b, f.x, f.y)))
                       /\ ret' = NoRet
  /\ UNCHANGED sets

\* One iteration of the loop of lines 124-143, or its end (line 144).
SolverTry ==
  /\ Solving /\ ret = NoRet /\ stack # <<>> /\ Top.at = "try"
  /\ LET f == Top
         b == f.self
         new_board == set(b, f.x, f.y, placed(f.v))
         ok == within_constraints(new_board, f.x, f.y)
     IN  IF f.v > last_candidate(b)
         THEN stack' = Pop /\ ret' = NoneR /\ UNCHANGED sets
         ELSE /\ sets' = sets + 1
              /\ CASE ok = "panic" -> Unwind(f.x, f.y)
                   [] ok = "false" ->
                        stack' = Retop([f EXCEPT !.v = f.v + 1]) /\ ret' = NoRet
                   [] ok = "true" /\ is_last(b, f.x, f.y) ->
                        stack' = Pop /\ ret' = SomeR(new_board)
                   [] OTHER ->
                        /\ stack' = Append(Retop([f EXCEPT !.at = "wait_loop"]),
                                           Frame(new_board, x_next(b, f.x),
                                                 y_next(b, f.x, f.y)))
                        /\ ret' = NoRet

\* A call of solver returns into its caller: line 121 returns the value
\* as it is, line 139 returns a Some and goes on with the loop on a None.
SolverReturn ==
  /\ Solving /\ ret.kind \in {"Some", "None"} /\ stack # <<>>
  /\ LET f == Top
     IN  IF f.at = "wait_loop" /\ ret.kind = "None"
         THEN stack' = Retop([f EXCEPT !.v = f.v + 1, !.at = "try"]) /\ ret' = NoRet
         ELSE stack' = Pop /\ ret' = ret
  /\ UNCHANGED sets

\* solve has returned (or panicked).
Returned == Solving /\ stack = <<>> /\ ret # NoRet

(* --------------------- what the claims speak of ----------------------- *)

Positions(n) == (0..(n - 1)) \X (0..(n - 1))

Occupied(c) == c.kind # "Empty"

IsSquare(n) == isqrt(n) * isqrt(n) = n

\* A well-formed grid: n * n cells, n a perfect square, values in 1..n.
WellFormed(b) ==
  /\ b.kind = "Board"
  /\ Len(b.squares) = b.n * b.n
  /\ IsSquare(b.n)
  /\ \A i \in 1..Len(b.squares) : Occupied(b.squares[i]) => b.squares[i].v \in 1..b.n

\* Two distinct positions in one row, one column or one sub-box.
SameUnit(n, p, q) ==
  /\ p # q
  /\ \/ p[2] = q[2]
     \/ p[1] = q[1]
     \/ /\ p[1] \div isqrt(n) = q[1] \div isqrt(n)
        /\ p[2] \div isqrt(n) = q[2] \div isqrt(n)

Clash(b, p, q) ==
  /\ SameUnit(b.n, p, q)
  /\ Occupied(get(b, p[1], p[2]))
  /\ Occupied(get(b, q[1], q[2]))
  /\ get(b, p[1], p[2]).v = get(b, q[1], q[2]).v

\* Valid: no duplicate among the occupied cells of any row, column or box.
Valid(b) == \A p, q \in Positions(b.n) : ~Clash(b, p, q)

Complete(b) == \A i \in 1..Len(b.squares) : Occupied(b.squares[i])

Values(b) == [i \in 1..Len(b.squares) |-> b.squares[i].v]

\* The sides of the grids examined: the 1 x 1 grid and the 4 x 4 grid of the
\* tests (sudoku.rs:178); 0 is the degenerate perfect square.
Sides == {0, 1, 4}

\* Every complete valid grid of values of side n, built row by row.
Rows(n) == {r \in [1..n -> 1..n] : \A i, j \in 1..n : r[i] = r[j] => i = j}

RowFits(n, g, r) ==
  \A y \in 1..Len(g) : \A i, j \in 1..n :
    (i = j \/ ((i - 1) \div isqrt(n) = (j - 1) \div isqrt(n)
               /\ (y - 1) \div isqrt(n) = Len(g) \div isqrt(n)))
      => g[y][i] # r[j]

RECURSIVE FirstRows(_, _)
FirstRows(n, k) ==
  IF k = 0 THEN {<<>>}
  ELSE {Append(g, r) : g \in FirstRows(n, k - 1), r \in Rows(n)} \cap
       {Append(g, r) : <<g, r>> \in
          {gr \in FirstRows(n, k - 1) \X Rows(n) : RowFits(n, gr[1], gr[2])}}

SolvedGrids ==
  [n \in Sides |->
     {[i \in 1..(n * n) |-> g[((i - 1) \div n) + 1][((i - 1) % n) + 1]] :
        g \in FirstRows(n, n)}]

\* The complete valid grids that keep every occupied cell of b.
Completions(b) ==
  {s \in SolvedGrids[b.n] :
     \A i \in 1..Len(b.squares) : Occupied(b.squares[i]) => s[i] = b.squares[i].v}

\* The complete valid grids that keep every Constant cell of b.
FixedCompletions(b) ==
  {s \in SolvedGrids[b.n] :
     \A i \in 1..Len(b.squares) :
       b.squares[i].kind = "Constant" => s[i] = b.squares[i].v}

(* ----------------------- the solver on inputs ------------------------- *)

vars ==
  <<pc, board, stack, ret, sets, result, result2, ctor, held, log,
    warning, selected, edits, solves>>

gridVars == <<ctor, held, log>>

pageVars == <<warning, selected, edits, solves>>

\* The largest number of occupied cells of an input grid, other than the
\* fixtures of the tests and the grids of ClashGrids.
MaxGivens == 1

\* The inputs of the two tests of sudoku.rs.
FixtureValid ==
  <<Constant(2), Empty, Empty, Empty,
    Constant(4), Empty, Empty, Empty,
    Empty, Empty, Constant(2), Empty,
    Empty, Empty, Empty, Empty>>

FixtureInvalid ==
  <<Constant(2), Empty, Empty, Constant(1),
    Constant(4), Empty, Empty, Empty,
    Empty, Empty, Constant(2), Empty,
    Empty, Empty, Empty, Constant(1)>>

CellsOf(n) ==
  {Constant(v) : v \in 1..n} \cup {Variable(v) : v \in 1..n}

RECURSIVE SubsetsUpTo(_, _)
SubsetsUpTo(S, k) ==
  IF k = 0 THEN {{}}
  ELSE SubsetsUpTo(S, k - 1) \cup
       {T \cup {i} : T \in SubsetsUpTo(S, k - 1), i \in S}

\* The grids of side n with the cells of S occupied by cells of C.
GridsOn(n, S, C) ==
  {[kind |-> "Board", n |-> n,
    squares |-> [i \in 1..(n * n) |-> IF i \in S THEN f[i] ELSE Empty]] :
     f \in [S -> C]}

PosOf(n, i) == <<(i - 1) % n, (i - 1) \div n>>

\* The grids with exactly two occupied cells, holding the same value in one
\* row, one column or one sub-box.
ClashGrids(n) ==
  UNION {GridsOn(n, {i, j}, {Constant(v), Variable(v)}) :
           <<i, j, v>> \in {t \in (1..(n * n)) \X (1..(n * n)) \X (1..n) :
                              t[1] < t[2] /\ SameUnit(n, PosOf(n, t[1]), PosOf(n, t[2]))}}

InputGrids ==
  UNION {UNION {GridsOn(n, S, CellsOf(n)) : S \in SubsetsUpTo(1..(n * n), MaxGivens)}
           \cup ClashGrids(n) : n \in Sides}
  \cup {from(FixtureValid), from(FixtureInvalid)}

NoBoard == [kind |-> "NoBoard", squares |-> <<>>, n |-> 0]

NoCtor == [op |-> "none", arg |-> <<>>]

Idle ==
  /\ stack = <<>>
  /\ ret = NoRet
  /\ sets = 0
  /\ result = NoRet
  /\ result2 = NoRet

NoGrid == ctor = NoCtor /\ held = NoBoard /\ log = <<>>

NoPage == warning = "" /\ selected = <<>> /\ edits = 0 /\ solves = 0

Init ==
  /\ pc = "ready"
  /\ board \in InputGrids
  /\ Idle
  /\ NoGrid
  /\ NoPage

\* board.solve(): the call ...
Solve ==
  /\ pc = "ready"
  /\ pc' = "solving"
  /\ StartSolve(board)
  /\ UNCHANGED <<board, result, result2, gridVars, pageVars>>

Step ==
  /\ SolverEnter \/ SolverTry \/ SolverReturn
  /\ UNCHANGED <<pc, board, result, result2, gridVars, pageVars>>

\* ... and its return to the caller.
Finish ==
  /\ pc = "solving"
  /\ Returned
  /\ result' = ret
  /\ pc' = "done"
  /\ ret' = NoRet
  /\ UNCHANGED <<board, stack, sets, result2, gridVars, pageVars>>

Next == Solve \/ Step \/ Finish

Spec == Init /\ [][Next]_vars

Done == pc = "done"

(* ------------------------- claims on the solver ----------------------- *)

IsFixed(c) == c.kind = "Constant"

NoAssigned(b) == \A i \in 1..Len(b.squares) : b.squares[i].kind # "Variable"

\* Two Fixed cells of one row, one column or one sub-box hold one value.
FixedClash(b) ==
  \E p, q \in Positions(b.n) :
    Clash(b, p, q) /\ IsFixed(get(b, p[1], p[2])) /\ IsFixed(get(b, q[1], q[2]))

\* Two Fixed cells of one row hold one value.
RowClash(b) ==
  \E p, q \in Positions(b.n) :
    /\ p[2] = q[2]
    /\ Clash(b, p, q) /\ IsFixed(get(b, p[1], p[2])) /\ IsFixed(get(b, q[1], q[2]))

\* C1: when solve returns Some(S) on a well-formed grid, S has the side and
\* the size of the input, no Empty cell, no duplicate in any row, column or
\* sub-box, and the value of every Fixed cell of the input.
C1_ValidResult ==
  (Done /\ WellFormed(board) /\ result.kind = "Some") =>
    /\ result.board.n = board.n
    /\ Len(result.board.squares) = board.n * board.n
    /\ Complete(result.board)
    /\ Valid(result.board)
    /\ \A i \in 1..Len(board.squares) :
         IsFixed(board.squares[i]) => result.board.squares[i].v = board.squares[i].v

\* solve returned a grid for a 4 x 4 input with Fixed and Empty cells.
C1_Witness ==
  /\ Done /\ result.kind = "Some" /\ board.n = 4
  /\ \E i, j \in 1..16 : IsFixed(board.squares[i]) /\ ~Occupied(board.squares[j])

\* C2: on a well-formed grid (of side at least 1) that some complete valid
\* grid agrees with in every occupied cell, solve returns Some: it does not
\* return None and does not fail on an access outside the grid.
C2_Completeness ==
  (Done /\ WellFormed(board) /\ board.n >= 1 /\ Completions(board) # {}) =>
    result.kind = "Some"

\* C3: when solve returns None on a well-formed grid, no complete valid grid
\* keeps every occupied cell of the input.
C3_NoneIsSound ==
  (Done /\ WellFormed(board) /\ result.kind = "None") => Completions(board) = {}

\* solve returned None after the search had tried candidates.
C3_Witness == Done /\ WellFormed(board) /\ result.kind = "None" /\ sets > 0

\* C4: on a well-formed grid with two Fixed cells of one row, column or
\* sub-box holding one value, solve returns None; so on the second fixture.
C4_ClashRejected ==
  (Done /\ WellFormed(board) /\ FixedClash(board)) => result.kind = "None"

\* solve returned None on the fixture of test_solve_invalid_return_none.
C4_Witness == Done /\ board = from(FixtureInvalid) /\ result.kind = "None"

LexLeq(s, t) ==
  \/ s = t
  \/ \E i \in 1..Len(s) : s[i] < t[i] /\ \A j \in 1..(i - 1) : s[j] = t[j]

FixtureValidSolution == <<2, 1, 3, 4, 4, 3, 1, 2, 1, 4, 2, 3, 3, 2, 4, 1>>

\* C5: on a well-formed grid of Fixed and Empty cells, a returned grid is
\* the smallest, in row-major lexicographic order, of the complete valid
\* grids that keep the Fixed cells; its Fixed cells are those of the input
\* and every other cell is Assigned; on the first fixture it is the grid
\* the test expects.
C5_FirstSolution ==
  (Done /\ WellFormed(board) /\ NoAssigned(board) /\ result.kind = "Some") =>
    /\ Values(result.board) \in FixedCompletions(board)
    /\ \A t \in FixedCompletions(board) : LexLeq(Values(result.board), t)
    /\ \A i \in 1..Len(board.squares) :
         IF IsFixed(board.squares[i])
         THEN result.board.squares[i] = board.squares[i]
         ELSE result.board.squares[i].kind = "Variable"
    /\ board = from(FixtureValid) => Values(result.board) = FixtureValidSolution

\* solve returned a grid on the fixture of test_solve_valid.
C5_Witness == Done /\ board = from(FixtureValid) /\ result.kind = "Some"

\* C8 as stated: on a well-formed grid (of Fixed and Empty cells) with two
\* Fixed cells of one row holding one value, the search never calls set,
\* and solve returns None.
C8_NoPlacementBeforeNone ==
  (WellFormed(board) /\ NoAssigned(board) /\ RowClash(board)) =>
    /\ sets = 0
    /\ Done => result.kind = "None"

\* The Fixed cells whose row, column or sub-box holds a duplicate.
BadFixed(b) ==
  {i \in 1..Len(b.squares) :
     /\ IsFixed(b.squares[i])
     /\ \E p, q \in Positions(b.n) :
          /\ Clash(b, p, q)
          /\ \/ p[2] = PosOf(b.n, i)[2] /\ q[2] = PosOf(b.n, i)[2]
             \/ p[1] = PosOf(b.n, i)[1] /\ q[1] = PosOf(b.n, i)[1]
             \/ \A r \in {p, q} :
                  /\ r[1] \div isqrt(b.n) = PosOf(b.n, i)[1] \div isqrt(b.n)
                  /\ r[2] \div isqrt(b.n) = PosOf(b.n, i)[2] \div isqrt(b.n)}

\* Every cell before the first cell of BadFixed is Fixed.
FixedPrefix(b) ==
  \E i \in BadFixed(b) :
    /\ \A j \in BadFixed(b) : i <= j
    /\ \A j \in 1..(i - 1) : IsFixed(b.squares[j])

\* C8, amended: on a well-formed grid with two Fixed cells of one row
\* holding one value, solve returns None, and the search has called set
\* before that unless every cell before the first Fixed cell whose row,
\* column or sub-box holds a duplicate is Fixed.
C8_PlacementUnlessFixedPrefix ==
  (Done /\ WellFormed(board) /\ RowClash(board)) =>
    /\ result.kind = "None"
    /\ sets = 0 <=> FixedPrefix(board)

\* solve returned None on a row clash without a call of set.
C8_Witness == Done /\ WellFormed(board) /\ RowClash(board) /\ sets = 0

(* ------------------- constructing and editing a grid ------------------ *)

\* The largest side given to Board::new.
MaxSide == 4

\* The largest length of the slice given to Board::from.
MaxLen == 17

\* The largest number of calls of set after the construction.
MaxSets == 2

\* The cells given to set.
SetCells == {Empty, Constant(1), Variable(2)}

\* The slices given to Board::from: Empty cells, and the fixtures.
FromInputs ==
  {[i \in 1..len |-> Empty] : len \in 0..MaxLen} \cup {FixtureValid, FixtureInvalid}

GridInit ==
  /\ pc = "start"
  /\ board = NoBoard
  /\ Idle
  /\ NoGrid
  /\ NoPage

\* let g = Board::new(n);
New(n) ==
  /\ pc = "start"
  /\ ctor' = [op |-> "new", arg |-> n]
  /\ held' = new(n)
  /\ board' = new(n)
  /\ pc' = "built"
  /\ UNCHANGED <<solverVars, result, result2, log, pageVars>>

\* let g = Board::from(&cells); the assertion of line 37 may fail.
From(cells) ==
  /\ pc = "start"
  /\ ctor' = [op |-> "from", arg |-> cells]
  /\ IF from(cells).kind = "Panic"
     THEN pc' = "panicked" /\ UNCHANGED <<held, board>>
     ELSE pc' = "built" /\ held' = from(cells) /\ board' = from(cells)
  /\ UNCHANGED <<solverVars, result, result2, log, pageVars>>

\* let r = g.set(x, y, c); and then r = r.set(x, y, c); for in-range x, y.
\* The receiver is borrowed immutably (&self): the caller's g is not
\* written.
SetCell(x, y, c) ==
  /\ pc = "built"
  /\ Len(log) < MaxSets
  /\ board' = set(board, x, y, c)
  /\ log' = Append(log, <<x, y, c>>)
  /\ UNCHANGED <<pc, solverVars, result, result2, ctor, held, pageVars>>

GridNext ==
  \/ \E n \in 0..MaxSide : New(n)
  \/ \E cells \in FromInputs : From(cells)
  \/ \E x, y \in 0..(board.n - 1) : \E c \in SetCells : SetCell(x, y, c)

SpecGrid == GridInit /\ [][GridNext]_vars

\* The cell the calls of the log leave at position p of a grid that held d
\* there: the cell of the last call at p.
RECURSIVE Replay(_, _, _, _)
Replay(calls, i, p, d) ==
  IF i > Len(calls) THEN d
  ELSE Replay(calls, i + 1, p,
              IF <<calls[i][1], calls[i][2]>> = p THEN calls[i][3] ELSE d)

\* C6: the grid r that a chain of in-range calls of set returns has the side
\* and the size of the receiver g, holds at the position of each call the
\* cell of the last call there and at every other position the cell of g;
\* g is the grid the constructor returned, whatever was done to r.
C6_SetValueSemantics ==
  pc = "built" =>
    /\ board.n = held.n
    /\ Len(board.squares) = Len(held.squares)
    /\ \A p \in Positions(held.n) :
         get(board, p[1], p[2]) = Replay(log, 1, p, get(held, p[1], p[2]))
    /\ held = IF ctor.op = "new" THEN new(ctor.arg) ELSE from(ctor.arg)

\* Two calls of set at different positions, off the diagonal, on a fixture.
C6_Witness ==
  /\ pc = "built" /\ held = from(FixtureValid) /\ Len(log) = 2
  /\ <<log[1][1], log[1][2]>> # <<log[2][1], log[2][2]>>
  /\ log[1][1] # log[1][2]
  /\ log[1][3] # Empty

\* C7: every grid a constructor returns has n * n cells and a side with an
\* integer square root; new(n) and from(cells) fail otherwise.
C7_MalformedRejected ==
  pc = "built" => Len(board.squares) = board.n * board.n /\ IsSquare(board.n)

(* ------------------ two grids that differ in the tags ---------------- *)

\* The grid with every Assigned cell of b made Fixed.
AllFixed(b) ==
  [b EXCEPT !.squares =
     [i \in 1..Len(b.squares) |->
        IF b.squares[i].kind = "Variable" THEN Constant(b.squares[i].v)
        ELSE b.squares[i]]]

\* After board.solve(), AllFixed(board).solve(), when the two grids differ.
SolveTwin ==
  /\ pc = "done"
  /\ AllFixed(board) # board
  /\ pc' = "solving2"
  /\ StartSolve(AllFixed(board))
  /\ UNCHANGED <<board, result, result2, gridVars, pageVars>>

FinishTwin ==
  /\ pc = "solving2"
  /\ Returned
  /\ result2' = ret
  /\ pc' = "done2"
  /\ ret' = NoRet
  /\ UNCHANGED <<board, stack, sets, result, gridVars, pageVars>>

TwinNext == Solve \/ Step \/ Finish \/ SolveTwin \/ FinishTwin

SpecTwin == Init /\ [][TwinNext]_vars

\* C9 as stated, for a grid and the grid with its Assigned cells made Fixed
\* (where neither call fails): solve returns Some on both or on neither,
\* and the returned grids hold equal values.
C9_TagsDoNotMatter ==
  (pc = "done2" /\ WellFormed(board)
     /\ result.kind # "Panic" /\ result2.kind # "Panic") =>
    /\ result.kind = result2.kind
    /\ result.kind = "Some" => Values(result.board) = Values(result2.board)

\* C9, amended: the checks give the same answers on the two grids at every
\* cell; the search keeps the Fixed cells only: in a returned grid every
\* Fixed cell of the input is unchanged and every other cell is Assigned
\* (an Assigned cell of the input is filled again like an Empty one); and
\* when solve returns Some on the grid with every occupied cell Fixed, it
\* does not return None on the other.
C9_ChecksAgreeSearchRefills ==
  (pc = "done2" /\ WellFormed(board)) =>
    /\ \A p \in Positions(board.n) :
         /\ check_row_constraint(board, p[2]) = check_row_constraint(AllFixed(board), p[2])
         /\ check_col_constraint(board, p[1]) = check_col_constraint(AllFixed(board), p[1])
         /\ check_box_constraint(board, p[1], p[2])
              = check_box_constraint(AllFixed(board), p[1], p[2])
    /\ result.kind = "Some" =>
         \A i \in 1..Len(board.squares) :
           IF IsFixed(board.squares[i])
           THEN result.board.squares[i] = board.squares[i]
           ELSE result.board.squares[i].kind = "Variable"
    /\ result2.kind = "Some" => result.kind # "None"

\* Both calls returned a grid, and an Assigned cell of the input was given
\* another value.
C9_Witness ==
  /\ pc = "done2" /\ result.kind = "Some" /\ result2.kind = "Some"
  /\ \E i \in 1..Len(board.squares) :
       /\ board.squares[i].kind = "Variable"
       /\ result.board.squares[i].v # board.squares[i].v

(* ------------------------------ the page ------------------------------ *)

\* The side of the page's board.  The page uses 9 (lib.rs:18, lib.rs:58);
\* the model uses the smallest side with sub-boxes of more than one cell.
UISide == 4

\* The largest number of CellUpdate and KeyDown messages handled.
MaxEdits == 1

\* The largest number of Solve messages handled.
MaxSolves == 2

Unsolvable == "This Sudoku is unsolvable!"

\* Strings are sequences of characters.
Digits == <<"0", "1", "2", "3", "4", "5", "6", "7", "8", "9">>

IsDigit(ch) == \E d \in 1..10 : Digits[d] = ch

DigitValue(ch) == (CHOOSE d \in 1..10 : Digits[d] = ch) - 1

RECURSIVE decimal(_, _, _)
decimal(s, i, acc) ==
  IF i > Len(s) THEN acc ELSE decimal(s, i + 1, 10 * acc + DigitValue(s[i]))

\* str::parse::<u8>: an optional "+", then one or more decimal digits, and a
\* value of at most 255.
parse_u8(s) ==
  LET digits == IF s # <<>> /\ s[1] = "+" THEN Tail(s) ELSE s
  IN  IF digits = <<>> \/ \E i \in 1..Len(digits) : ~IsDigit(digits[i])
      THEN [ok |-> FALSE, v |-> 0]
      ELSE IF decimal(digits, 1, 0) > 255
      THEN [ok |-> FALSE, v |-> 0]
      ELSE [ok |-> TRUE, v |-> decimal(digits, 1, 0)]

Backspace == <<"B", "a", "c", "k", "s", "p", "a", "c", "e">>

Delete == <<"D", "e", "l", "e", "t", "e">>

\* The texts of the input field and the keys pressed.
CellTexts == {<<"1">>, <<"2">>, <<"3">>, <<"4">>, <<"5">>, <<"0">>, <<"x">>, <<>>}

Keys == {<<"1">>, <<"2">>, <<"3">>, <<"4">>, <<"0">>, <<"a">>, Backspace, Delete}

\* update_cell(model, value): value is <<v>> for Some(v), <<>> for None.
update_cell(b, sel, value) ==
  IF sel # <<>>
  THEN IF value # <<>>
       THEN set(b, sel[1], sel[2], Constant(value[1]))
       ELSE set(b, sel[1], sel[2], Empty)
  ELSE b

PageInit ==
  /\ pc = "idle"
  /\ board = new(UISide)
  /\ Idle
  /\ NoGrid
  /\ NoPage

\* Msg::Solve, up to the call of solve.
MsgSolve ==
  /\ pc = "idle"
  /\ solves < MaxSolves
  /\ solves' = solves + 1
  /\ warning' = ""
  /\ pc' = "solving"
  /\ StartSolve(board)
  /\ UNCHANGED <<board, result, result2, gridVars, selected, edits>>

\* The search of the call.
PageStep ==
  /\ pc = "solving"
  /\ SolverEnter \/ SolverTry \/ SolverReturn
  /\ UNCHANGED <<pc, board, result, result2, gridVars, pageVars>>

\* Msg::Solve, from the return of solve on; a panic ends the page.
MsgSolveReturned ==
  /\ pc = "solving"
  /\ Returned
  /\ ret' = NoRet
  /\ CASE ret.kind = "Some" ->
            board' = ret.board /\ selected' = <<>> /\ pc' = "idle" /\ UNCHANGED warning
       [] ret.kind = "None" ->
            warning' = Unsolvable /\ selected' = <<>> /\ pc' = "idle" /\ UNCHANGED board
       [] OTHER ->
            pc' = "crashed" /\ UNCHANGED <<board, warning, selected>>
  /\ UNCHANGED <<stack, sets, result, result2, gridVars, edits, solves>>

\* Msg::Clear
MsgClear ==
  /\ pc = "idle"
  /\ warning' = ""
  /\ board' = new(UISide)
  /\ selected' = <<>>
  /\ UNCHANGED <<pc, solverVars, result, result2, gridVars, edits, solves>>

\* Msg::Select(x, y), sent by a click on a cell of the board.
MsgSelect(x, y) ==
  /\ pc = "idle"
  /\ selected' = IF selected = <<x, y>> THEN <<>> ELSE <<x, y>>
  /\ UNCHANGED <<pc, board, solverVars, result, result2, gridVars, warning, edits, solves>>

\* Msg::CellUpdate(s)
MsgCellUpdate(s) ==
  /\ pc = "idle"
  /\ edits < MaxEdits
  /\ edits' = edits + 1
  /\ board' =
       IF parse_u8(s).ok
       THEN IF parse_u8(s).v > 0 /\ parse_u8(s).v <= board.n
            THEN update_cell(board, selected, <<parse_u8(s).v>>)
            ELSE board
       ELSE IF s = <<>> THEN update_cell(board, selected, <<>>) ELSE board
  /\ UNCHANGED <<pc, solverVars, result, result2, gridVars, warning, selected, solves>>

\* Msg::KeyDown(key_event), with key = key_event.key()
MsgKeyDown(key) ==
  /\ pc = "idle"
  /\ edits < MaxEdits
  /\ edits' = edits + 1
  /\ board' =
       IF parse_u8(key).ok
       THEN IF parse_u8(key).v > 0 /\ parse_u8(key).v <= board.n
            THEN update_cell(board, selected, <<parse_u8(key).v>>)
            ELSE board
       ELSE IF key = Backspace \/ key = Delete
            THEN update_cell(board, selected, <<>>)
            ELSE board
  /\ UNCHANGED <<pc, solverVars, result, result2, gridVars, warning, selected, solves>>

PageNext ==
  \/ MsgSolve
  \/ PageStep
  \/ MsgSolveReturned
  \/ MsgClear
  \/ \E x, y \in 0..(board.n - 1) : MsgSelect(x, y)
  \/ \E s \in CellTexts : MsgCellUpdate(s)
  \/ \E key \in Keys : MsgKeyDown(key)

SpecUI == PageInit /\ [][PageNext]_vars

\* C10: when solve returns None to the Solve handler, which then sets the
\* warning and leaves the board as it is, no complete valid grid keeps the
\* Constant cells of the board.
C10_WarningTruthful ==
  (pc = "solving" /\ Returned /\ ret.kind = "None") => FixedCompletions(board) = {}

====
